---- MODULE Spec2Model ----
(***************************************************************************)
(* Processing scripts of the QGIS-Resources collection, as state machines. *)
(*                                                                         *)
(*   update : change_datasource_projects.py  (updateprojectdatasources)    *)
(*   audit  : AuditQGISProjects.py           (processAlgorithm)            *)
(*   joins  : add_joins_for_relation_fields.py (processAlgorithm)          *)
(*   sub    : the search pattern of updateprojectdatasources applied to    *)
(*            one datasource text (a pure function, swept over inputs)     *)
(*                                                                         *)
(* One script runs at a time (variable script); the variables of the other *)
(* scripts keep their idle values.  Texts are sequences of one-character   *)
(* strings, so that searching and replacing are computed, not assumed.     *)
(***************************************************************************)
EXTENDS Integers, Sequences, FiniteSets, TLC

VARIABLES
    script,         \* which script the host framework is running
    canceled,       \* feedback.isCanceled(): set by the user at any moment
    \* ---- updateprojectdatasources
    backups,        \* CREATE_BACKUP
    fullword,       \* FULLWORD
    ignorecase,     \* IGNORECASE
    input_pattern,  \* INPUT_PATTERN (search text)
    replace_text,   \* REPLACE_TEXT
    fileexts,       \* FILEEXTS split on ','
    collected,      \* list of project candidates
    fs,             \* file system: project path -> content
    bakfs,          \* file system: backup path of a project -> content
    before,         \* content of every project when the run started
    upc,            \* position in the script
    current,        \* index in collected of the file being processed
    dom,            \* the datasource elements of the parsed document
    node,           \* index of the datasource element being looked at
    changed,        \* local flag of _replace_datasources
    content,        \* text to be written
    modified,       \* paths yielded by _iterate
    errors,         \* paths for which reportError was called
    events,         \* log of file system operations on project paths
    output,         \* OUTPUT_MODIFIED_COUNT
    \* ---- AuditQGISProjects
    directory,                  \* files under PROJECTS_ROOT_DIRECTORY
    dont_resolve_layers,        \* DONT_RESOLVE_LAYERS
    layer_name_filter,          \* LAYER_NAME_FILTER, stripped
    layer_datasource_filter,    \* LAYER_DATASOURCE_FILTER, stripped
    get_lizmap_config_properties,
    output_csv_layers_path,     \* "TEMPORARY_OUTPUT" when not asked for
    output_csv_tables_path,
    qgis_project_files,         \* the sorted list of project files
    apc,                        \* position in processAlgorithm
    pidx,                       \* index of the project of the current iteration
    layers,                     \* p.mapLayers() of the project read
    lidx,                       \* index of the layer being parsed
    name_matches,
    datasource_matches,
    projects,                   \* the project records
    exported_datasources,       \* dict, as its items in insertion order
    unique_postgresql_tables,   \* dict, as its items in insertion order
    filtered_project_number,
    csv_projects,               \* the three output files
    csv_layers,
    csv_tables,
    messages,                   \* what was pushed to the feedback
    \* ---- AddJoinsForRelationFieldsAlgorithm
    sel_layers,     \* self.layers
    drop,           \* self.drop
    jpc,            \* position in processAlgorithm
    jidx,           \* index of the layer of the current iteration
    fidx,           \* index of the field of the current iteration
    joined_fields,
    failed,
    vector_joins,   \* layer.vectorJoins() of every selected layer
    exclude_wms,    \* layer.excludeAttributesWms() of every selected layer
    exclude_wfs,    \* layer.excludeAttributesWfs() of every selected layer
    raised,         \* the exception that ended processAlgorithm, if any
    \* ---- sub
    subcase,        \* inputs of one substitution
    subresult,      \* its result
    \* ---- ExportPostgresqlTablesToGeopackage
    connection_service, \* uri.service() of the connection, <<>> when it has none
    schemas,            \* SCHEMAS, then the list rebuilt from it
    tables_block_list,  \* TABLE_BLOCK_LIST
    output_path,        \* DESTINATION, then the path of the GeoPackage
    gpkg,               \* the file at output_path: exists, tables it holds
    ogr_source,
    ogr_arguments,
    xpc,                \* position in processAlgorithm
    xraised,            \* the exception that ended processAlgorithm, if any
    \* ---- SetFeatureMainColor
    color_field,            \* COLOR_FIELD, "" when not given
    virtual_color_field,    \* VIRTUAL_COLOR_FIELD, "" when not given
    label_field,            \* LABEL_FIELD, "" when not given
    virtual_label_field,    \* VIRTUAL_LABEL_FIELD, "" when not given
    symbol_level,           \* SYMBOL_LEVEL
    renderer,               \* vlayer.renderer(): its type and its categories
    features,               \* the features of the layer: their attributes
    expression_fields,      \* the virtual fields of the layer
    color_expression,
    label_expression,
    feature_idx,            \* index of the feature of the current iteration
    mpc,                    \* position in the script
    mresult,                \* what checkParameterValues / processAlgorithm gave
    \* oracle_to_pg.py (ImportPg)
    pg_tables,              \* the tables of the database: their rows and fields
    import_layer,           \* LAYER: its field names and its feature count
    pg_schema,              \* SCHEMA
    pg_table,               \* TABLE
    overwrite,              \* OVERWRITE
    import_options,         \* the -select option handed to the import
    ipc,                    \* position in the script
    iresult                 \* what checkParameterValues / processAlgorithm gave

uvars == <<backups, fullword, ignorecase, input_pattern, replace_text, fileexts,
           collected, fs, bakfs, before, upc, current, dom, node, changed,
           content, modified, errors, events, output>>
avars == <<directory, dont_resolve_layers, layer_name_filter,
           layer_datasource_filter, get_lizmap_config_properties,
           output_csv_layers_path, output_csv_tables_path, qgis_project_files,
           apc, pidx, layers, lidx, name_matches, datasource_matches, projects,
           exported_datasources, unique_postgresql_tables,
           filtered_project_number, csv_projects, csv_layers, csv_tables,
           messages>>
jvars == <<sel_layers, drop, jpc, jidx, fidx, joined_fields, failed, vector_joins,
           exclude_wms, exclude_wfs, raised>>
svars == <<subcase, subresult>>
xvars == <<connection_service, schemas, tables_block_list, output_path, gpkg,
           ogr_source, ogr_arguments, xpc, xraised>>
mvars == <<color_field, virtual_color_field, label_field, virtual_label_field,
           symbol_level, renderer, features, expression_fields,
           color_expression, label_expression, feature_idx, mpc, mresult>>
ivars == <<pg_tables, import_layer, pg_schema, pg_table, overwrite,
           import_options, ipc, iresult>>
vars == <<script, canceled, uvars, avars, jvars, svars, xvars, mvars, ivars>>

(***************************************************************************)
(* Bounds                                                                  *)
(***************************************************************************)
MaxLen == 4     \* longest datasource text swept by the sub specification
MaxPat == 2     \* longest search text swept by the sub specification
MaxNodes == 2   \* most datasource elements in one project file
MaxLayers == 2  \* most layers in one audited project
MaxSelected == 2 \* most layers selected for the add-joins script
MaxFeatures == 2 \* most features in the layer of the main colour script

(***************************************************************************)
(* Texts                                                                   *)
(***************************************************************************)
WordChars == {"a", "A"}
Alphabet == WordChars \cup {"-"}

\* re.IGNORECASE compares characters without their case; str.lower()
Lower(c) ==
    CASE c = "A" -> "a"
      [] c = "B" -> "b"
      [] c = "R" -> "r"
      [] c = "X" -> "x"
      [] OTHER -> c

\* \w of the regular expression
IsWord(c) == c \in WordChars

Texts(n) == UNION {[1..k -> Alphabet] : k \in 0..n}

\* \b at the gap before text[k] (k in 1..Len+1): exactly one side is a word character
WordBoundary(text, k) ==
    LET left == k > 1 /\ IsWord(text[k - 1])
        right == k <= Len(text) /\ IsWord(text[k])
    IN  left # right

\* re.escape makes the search text a literal; FULLWORD wraps it in \b ... \b
CompilePatternNoTrailingBoundary(pattern, icase, fw) ==
    [lit |-> pattern, icase |-> icase, lead |-> fw, trail |-> FALSE]

CompilePattern(pattern, icase, fw) ==
    [lit |-> pattern, icase |-> icase, lead |-> fw, trail |-> fw]

\* the compiled pattern matches text at position k
MatchAt(re, text, k) ==
    LET n == Len(re.lit)
    IN  /\ k + n - 1 <= Len(text)
        /\ \A j \in 1..n :
              IF re.icase THEN Lower(text[k + j - 1]) = Lower(re.lit[j])
                          ELSE text[k + j - 1] = re.lit[j]
        /\ re.lead => WordBoundary(text, k)
        /\ re.trail => WordBoundary(text, k + n)

\* re.search: the leftmost position that matches, 0 when there is none
Search(re, text) ==
    LET hits == {k \in 1..Len(text) : MatchAt(re, text, k)}
    IN  IF hits = {} THEN 0 ELSE CHOOSE k \in hits : \A h \in hits : k <= h

\* pattern.sub(repl, text, count=1)
SubOnce(re, repl, text) ==
    LET k == Search(re, text)
        n == Len(re.lit)
    IN  IF k = 0 THEN text
        ELSE SubSeq(text, 1, k - 1) \o repl \o SubSeq(text, k + n, Len(text))

Range(s) == {s[k] : k \in 1..Len(s)}

(***************************************************************************)
(* updateprojectdatasources: inputs                                        *)
(***************************************************************************)
\* the project files of INPUT_FOLDER, in the order a glob lists them
PathOrder == <<"a.qgs", "b.qgz">>
Paths == Range(PathOrder)

Suffix(path) == IF path = "a.qgs" THEN "qgs" ELSE "qgz"

FileExtsPool == {<<"*.qgs", "*.qgz">>, <<"*.qg?", "*.qgs">>, <<"*.qgs">>}

\* datasource texts found in the project files, search and replacement texts
DsPool == {<<"a">>, <<"A", "a">>}
PatternPool == {<<"a">>}
ReplacePool == {<<"-">>, <<"a", "-">>}

\* a file: absent, cut short by a failed write (it holds the datasource
\* elements written before the cut), or a document with its datasource elements
Absent == [st |-> "absent", ds |-> <<>>]
Partial(ds) == [st |-> "partial", ds |-> ds]
File(ds) == [st |-> "ok", ds |-> ds]

Documents == {File(ds) : ds \in UNION {[1..k -> DsPool] : k \in 0..MaxNodes}}

\* the content of INPUT_FOLDER: the project kept as text holds up to MaxNodes
\* datasource elements, the project kept as an archive at most one
ProjectFolders ==
    {folder \in [Paths -> Documents] :
        \A p \in Paths : Suffix(p) = "qgz" => Len(folder[p].ds) <= 1}

\* Path.glob(extpat)
GlobMatches(extpat, path) ==
    \/ extpat = "*.qg?"
    \/ extpat = "*.qgs" /\ Suffix(path) = "qgs"
    \/ extpat = "*.qgz" /\ Suffix(path) = "qgz"

Glob(extpat) == SelectSeq(PathOrder, LAMBDA path : GlobMatches(extpat, path))

\* list(chain(*(glob(extpat) for extpat in fileexts)))
RECURSIVE Collect(_)
Collect(exts) ==
    IF exts = <<>> THEN <<>> ELSE Glob(Head(exts)) \o Collect(Tail(exts))

Event(op, path) == [op |-> op, path |-> path]

IdleUpdate ==
    /\ backups = FALSE /\ fullword = FALSE /\ ignorecase = FALSE
    /\ input_pattern = <<>> /\ replace_text = <<>> /\ fileexts = <<>>
    /\ collected = <<>>
    /\ fs = [p \in Paths |-> Absent]
    /\ bakfs = [p \in Paths |-> Absent]
    /\ before = [p \in Paths |-> Absent]
    /\ upc = "idle" /\ current = 0 /\ dom = <<>> /\ node = 0
    /\ changed = FALSE /\ content = <<>> /\ modified = <<>>
    /\ errors = <<>> /\ events = <<>> /\ output = -1

NoFile == [written |-> FALSE, header |-> <<>>, rows |-> <<>>]

IdleAudit ==
    /\ directory = {}
    /\ dont_resolve_layers = FALSE /\ get_lizmap_config_properties = FALSE
    /\ layer_name_filter = <<>> /\ layer_datasource_filter = <<>>
    /\ output_csv_layers_path = "" /\ output_csv_tables_path = ""
    /\ qgis_project_files = <<>>
    /\ apc = "idle" /\ pidx = 0 /\ layers = <<>> /\ lidx = 0
    /\ name_matches = <<>> /\ datasource_matches = <<>>
    /\ projects = <<>> /\ exported_datasources = <<>>
    /\ unique_postgresql_tables = <<>> /\ filtered_project_number = 0
    /\ csv_projects = NoFile /\ csv_layers = NoFile /\ csv_tables = NoFile
    /\ messages = {}

IdleJoins ==
    /\ sel_layers = <<>> /\ drop = FALSE /\ jpc = "idle" /\ jidx = 0 /\ fidx = 0
    /\ joined_fields = <<>> /\ failed = <<>> /\ vector_joins = <<>>
    /\ exclude_wms = <<>> /\ exclude_wfs = <<>> /\ raised = "none"

IdleSub == subcase = [none |-> TRUE] /\ subresult = [none |-> TRUE]

NoGpkg == [exists |-> FALSE, tables |-> {}]

IdleExport ==
    /\ connection_service = <<>> /\ schemas = <<>> /\ tables_block_list = <<>>
    /\ output_path = <<>> /\ gpkg = NoGpkg
    /\ ogr_source = <<>> /\ ogr_arguments = <<>>
    /\ xpc = "idle" /\ xraised = "none"

IdleMain ==
    /\ color_field = "" /\ virtual_color_field = ""
    /\ label_field = "" /\ virtual_label_field = ""
    /\ symbol_level = 0
    /\ renderer = [type |-> "none", categories |-> <<>>]
    /\ features = <<>> /\ expression_fields = {}
    /\ color_expression = <<>> /\ label_expression = <<>>
    /\ feature_idx = 0 /\ mpc = "idle" /\ mresult = "none"

\* a layer without fields nor features
NoLayer == [fields |-> <<>>, feature_count |-> 0]

IdleImport ==
    /\ pg_tables = <<>>
    /\ import_layer = NoLayer
    /\ pg_schema = <<>> /\ pg_table = <<>>
    /\ overwrite = FALSE
    /\ import_options = <<>>
    /\ ipc = "idle" /\ iresult = <<>>

\* the state when the loop of _iterate starts: parameters read, pattern
\* compiled, candidates collected
InitUpdate ==
    /\ script = "update"
    /\ canceled = FALSE
    /\ backups \in BOOLEAN
    /\ fullword \in BOOLEAN
    /\ ignorecase = TRUE
    /\ input_pattern \in PatternPool
    /\ replace_text \in ReplacePool
    /\ fileexts \in FileExtsPool
    /\ collected = Collect(fileexts)
    /\ fs \in ProjectFolders
    /\ before = fs
    /\ bakfs = [p \in Paths |-> Absent]
    /\ upc = "iter" /\ current = 1 /\ dom = <<>> /\ node = 0
    /\ changed = FALSE /\ content = <<>> /\ modified = <<>>
    /\ errors = <<>> /\ events = <<>> /\ output = -1
    /\ IdleAudit
    /\ IdleJoins
    /\ IdleSub
    /\ IdleExport
    /\ IdleMain
    /\ IdleImport

(***************************************************************************)
(* updateprojectdatasources: steps                                         *)
(***************************************************************************)
Path == collected[current]

\* an exception that is reported and left to end the run
ReportErrorAborts ==
    /\ errors' = Append(errors, Path)
    /\ current' = current
    /\ upc' = "aborted"

\* except Exception in _iterate: report and go on with the next candidate
ReportError ==
    /\ errors' = Append(errors, Path)
    /\ current' = current + 1
    /\ upc' = "iter"

\* next candidate of _iterate; _read_content and dom.setContent. A missing
\* file and a .qgz archive cut short cannot be opened. A .qgs file cut short is
\* read as text; dom.setContent fails on it, its result is not looked at, and
\* the document holds the elements parsed before the cut, or none
ReadContent ==
    /\ script = "update" /\ upc = "iter" /\ current <= Len(collected)
    /\ IF \/ fs[Path].st = "absent"
          \/ fs[Path].st = "partial" /\ Suffix(Path) = "qgz"
       THEN /\ ReportError
            /\ UNCHANGED <<dom, node, changed, content>>
       ELSE /\ dom' \in IF fs[Path].st = "partial"
                        THEN {fs[Path].ds, <<>>}
                        ELSE {fs[Path].ds}
            /\ content' = fs[Path].ds
            /\ node' = 1
            /\ changed' = FALSE
            /\ upc' = "node"
            /\ UNCHANGED <<errors, current>>
    /\ UNCHANGED <<script, canceled, backups, fullword, ignorecase, input_pattern,
                   replace_text, fileexts, collected, fs, bakfs, before, modified,
                   events, output, avars, jvars, svars, xvars, mvars, ivars>>

\* one datasource element: substitute once, skip it when nothing changed
ReplaceNode ==
    /\ script = "update" /\ upc = "node" /\ node <= Len(dom)
    /\ LET old_source == dom[node]
           new_source == SubOnce(CompilePattern(input_pattern, ignorecase, fullword),
                                 replace_text, old_source)
       IN  IF old_source = new_source
           THEN /\ node' = node + 1
                /\ UNCHANGED <<dom, changed, upc>>
           ELSE /\ dom' = [dom EXCEPT ![node] = new_source]
                /\ changed' = TRUE
                /\ upc' = IF changed' THEN "move" ELSE "node"
                /\ node' = IF changed' THEN node ELSE node + 1
    /\ UNCHANGED <<script, canceled, backups, fullword, ignorecase, input_pattern,
                   replace_text, fileexts, collected, fs, bakfs, before, current,
                   content, modified, errors, events, output, avars, jvars, svars, xvars, mvars,
                   ivars>>

\* a backup step that copies the file and leaves the original in place
MoveToBackupCopies ==
    /\ script = "update" /\ upc = "move"
    /\ content' = dom
    /\ bakfs' = [bakfs EXCEPT ![Path] = fs[Path]]
    /\ events' = Append(events, Event("copy", Path))
    /\ upc' = "write"
    /\ UNCHANGED <<script, canceled, backups, fullword, ignorecase, input_pattern,
                   replace_text, fileexts, collected, fs, before, current, dom,
                   node, changed, modified, errors, output, avars, jvars, svars, xvars, mvars,
                   ivars>>

\* content = dom.toString(); shutil.move(str(path), str(bak))
MoveToBackup ==
    /\ script = "update" /\ upc = "move"
    /\ content' = dom
    /\ IF fs[Path].st = "absent"
       THEN /\ ReportError
            /\ UNCHANGED <<fs, bakfs, events>>
       ELSE /\ bakfs' = [bakfs EXCEPT ![Path] = fs[Path]]
            /\ fs' = [fs EXCEPT ![Path] = Absent]
            /\ events' = Append(events, Event("rename", Path))
            /\ upc' = "write"
            /\ UNCHANGED <<errors, current>>
    /\ UNCHANGED <<script, canceled, backups, fullword, ignorecase, input_pattern,
                   replace_text, fileexts, collected, before, dom, node, changed,
                   modified, output, avars, jvars, svars, xvars, mvars, ivars>>

\* _write_content succeeds
WriteContent ==
    /\ script = "update" /\ upc = "write"
    /\ fs' = [fs EXCEPT ![Path] = File(content)]
    /\ events' = Append(events, Event("write", Path))
    /\ upc' = "unlink"
    /\ UNCHANGED <<script, canceled, backups, fullword, ignorecase, input_pattern,
                   replace_text, fileexts, collected, bakfs, before, current, dom,
                   node, changed, content, modified, errors, output, avars, jvars, svars, xvars, mvars,
                   ivars>>

\* _write_content raises (disk full, no permission): the destination was not
\* created, or was created and holds only part of the data. No member of a
\* .qgz archive cut short can be read
WriteContentFails ==
    /\ script = "update" /\ upc = "write"
    /\ \/ /\ fs' = [fs EXCEPT ![Path] = Absent]
          /\ UNCHANGED events
       \/ /\ \E k \in IF Suffix(Path) = "qgs" THEN 0..Len(content) ELSE {0} :
                 fs' = [fs EXCEPT ![Path] = Partial(SubSeq(content, 1, k))]
          /\ events' = Append(events, Event("write", Path))
    /\ ReportError
    /\ UNCHANGED <<script, canceled, backups, fullword, ignorecase, input_pattern,
                   replace_text, fileexts, collected, bakfs, before, dom, node,
                   changed, content, modified, output, avars, jvars, svars, xvars, mvars,
                   ivars>>

\* a clean-up that removes the backup whatever CREATE_BACKUP says
UnlinkBackupAlways ==
    /\ script = "update" /\ upc = "unlink"
    /\ bakfs' = [bakfs EXCEPT ![Path] = Absent]
    /\ events' = Append(events, Event("unlink", Path))
    /\ node' = node + 1
    /\ upc' = "node"
    /\ UNCHANGED <<script, canceled, backups, fullword, ignorecase, input_pattern,
                   replace_text, fileexts, collected, fs, before, current, dom,
                   changed, content, modified, errors, output, avars, jvars, svars, xvars, mvars,
                   ivars>>

\* if not backups: bak.unlink(); then the next datasource element
UnlinkBackup ==
    /\ script = "update" /\ upc = "unlink"
    /\ IF ~backups
       THEN /\ bakfs' = [bakfs EXCEPT ![Path] = Absent]
            /\ events' = Append(events, Event("unlink", Path))
       ELSE UNCHANGED <<bakfs, events>>
    /\ node' = node + 1
    /\ upc' = "node"
    /\ UNCHANGED <<script, canceled, backups, fullword, ignorecase, input_pattern,
                   replace_text, fileexts, collected, fs, before, current, dom,
                   changed, content, modified, errors, output, avars, jvars, svars, xvars, mvars,
                   ivars>>

\* return changed; _iterate yields the path when it is true
ReturnChanged ==
    /\ script = "update" /\ upc = "node" /\ node > Len(dom)
    /\ modified' = IF changed THEN Append(modified, Path) ELSE modified
    /\ current' = current + 1
    /\ upc' = "iter"
    /\ UNCHANGED <<script, canceled, backups, fullword, ignorecase, input_pattern,
                   replace_text, fileexts, collected, fs, bakfs, before, dom, node,
                   changed, content, errors, events, output, avars, jvars, svars, xvars, mvars,
                   ivars>>

\* modified = list(_iterate()); return OUTPUT_MODIFIED_COUNT
FinishUpdate ==
    /\ script = "update" /\ upc = "iter" /\ current > Len(collected)
    /\ output' = Len(modified)
    /\ upc' = "done"
    /\ UNCHANGED <<script, canceled, backups, fullword, ignorecase, input_pattern,
                   replace_text, fileexts, collected, fs, bakfs, before, current,
                   dom, node, changed, content, modified, errors, events, avars, jvars, svars, xvars, mvars,
                   ivars>>

NextUpdate ==
    \/ ReadContent
    \/ ReplaceNode
    \/ MoveToBackup
    \/ WriteContent
    \/ WriteContentFails
    \/ UnlinkBackup
    \/ ReturnChanged
    \/ FinishUpdate

SpecUpdate == InitUpdate /\ [][NextUpdate]_vars

(***************************************************************************)
(* AuditQGISProjects: texts, cells and dictionaries                        *)
(***************************************************************************)
\* code points (times ten; a file extension is one token that sorts as its dot)
Code(c) ==
    CASE c = " " -> 320 [] c = "\"" -> 340 [] c = ".cfg" -> 459 [] c = "." -> 460
      [] c = ".qgs" -> 461 [] c = ".qgz" -> 462 [] c = ".txt" -> 463
      [] c = "/" -> 470 [] c = "A" -> 650 [] c = "B" -> 660 [] c = "GHOST" -> 710
      [] c = "R" -> 820 [] c = "X" -> 880 [] c = "a" -> 970 [] c = "b" -> 980 [] c = "d" -> 1000
      [] c = "e" -> 1010 [] c = "m" -> 1090 [] c = "n" -> 1100 [] c = "r" -> 1140
      [] c = "s" -> 1150 [] c = "t" -> 1160 [] c = "u" -> 1170 [] c = "x" -> 1200
      [] c = "|" -> 1240

\* str.lower()
LowerStr(text) == [k \in 1..Len(text) |-> Lower(text[k])]

\* the order of str: a < b
RECURSIVE LexLess(_, _)
LexLess(a, b) ==
    IF b = <<>> THEN FALSE
    ELSE IF a = <<>> THEN TRUE
    ELSE IF Code(Head(a)) # Code(Head(b)) THEN Code(Head(a)) < Code(Head(b))
    ELSE LexLess(Tail(a), Tail(b))

\* sorted(keys)
RECURSIVE Sorted(_)
Sorted(keys) ==
    IF keys = {} THEN <<>>
    ELSE LET first == CHOOSE x \in keys : \A y \in keys \ {x} : LexLess(x, y)
         IN  <<first>> \o Sorted(keys \ {first})

\* files.sort(key=sort_case_insensitive)
RECURSIVE SortedCaseInsensitive(_)
SortedCaseInsensitive(files) ==
    IF files = {} THEN <<>>
    ELSE LET first == CHOOSE x \in files :
                          \A y \in files \ {x} : LexLess(LowerStr(x), LowerStr(y))
         IN  <<first>> \o SortedCaseInsensitive(files \ {first})

\* str.strip()
RECURSIVE Strip(_)
Strip(text) ==
    IF text = <<>> THEN text
    ELSE IF Head(text) = " " THEN Strip(Tail(text))
    ELSE IF text[Len(text)] = " " THEN Strip(SubSeq(text, 1, Len(text) - 1))
    ELSE text

\* the operator in of two str
Contains(part, text) ==
    \E k \in 1..(Len(text) - Len(part) + 1) :
        SubSeq(text, k, k + Len(part) - 1) = part

\* text.replace(old, '')
RECURSIVE RemoveAll(_, _)
RemoveAll(text, old) ==
    IF Len(text) < Len(old) \/ old = <<>> THEN text
    ELSE IF SubSeq(text, 1, Len(old)) = old
         THEN RemoveAll(SubSeq(text, Len(old) + 1, Len(text)), old)
         ELSE <<Head(text)>> \o RemoveAll(Tail(text), old)

\* '|'.join(list)
RECURSIVE JoinBar(_)
JoinBar(list) ==
    IF list = <<>> THEN <<>>
    ELSE IF Len(list) = 1 THEN list[1]
    ELSE list[1] \o <<"|">> \o JoinBar(Tail(list))

\* cells of a CSV file
Blank == [blank |-> TRUE]
Num(n) == [num |-> n]
Str(text) == [str |-> text]
HostValue == [host |-> TRUE]

\* if x not in list: list.append(x), without the test
AppendAlways(list, x) == Append(list, x)

\* if x not in list: list.append(x)
AppendUnique(list, x) == IF x \in Range(list) THEN list ELSE Append(list, x)

\* position of key among the items of a dict, 0 when key not in dict
IndexOfKey(dict, key) ==
    IF \E k \in 1..Len(dict) : dict[k].key = key
    THEN CHOOSE k \in 1..Len(dict) : dict[k].key = key
    ELSE 0

\* exported_datasources[datasource]: names and projects of a datasource
RecordDatasource(dict, datasource, layer_name, project_relative_file) ==
    LET with == IF IndexOfKey(dict, datasource) = 0
                THEN Append(dict, [key |-> datasource, names |-> <<>>,
                                   projects |-> <<>>])
                ELSE dict
        k == IndexOfKey(with, datasource)
    IN  [with EXCEPT ![k].names = AppendUnique(@, layer_name),
                     ![k].projects = AppendUnique(@, project_relative_file)]

\* unique_postgresql_tables[table_name]: projects of a table
RecordTable(dict, table_name, project_relative_file) ==
    LET with == IF IndexOfKey(dict, table_name) = 0
                THEN Append(dict, [key |-> table_name, projects |-> <<>>])
                ELSE dict
        k == IndexOfKey(with, table_name)
    IN  [with EXCEPT ![k].projects = AppendUnique(@, project_relative_file)]

\* '"{}"."{}"'.format(uri.schema(), uri.table())
TableName(schema, table) ==
    <<"\"">> \o schema \o <<"\"", ".", "\"">> \o table \o <<"\"">>

\* csv.DictWriter: a key of a row that is no field name raises ValueError
HasExtras(fieldnames, rows) ==
    \E i \in 1..Len(rows) : ~(DOMAIN rows[i] \subseteq Range(fieldnames))

\* writer.writeheader(); writer.writerows(rows)
WriteCsv(fieldnames, rows) ==
    [written |-> TRUE,
     header |-> fieldnames,
     rows |-> [i \in 1..Len(rows) |->
                 [j \in 1..Len(fieldnames) |->
                     IF fieldnames[j] \in DOMAIN rows[i]
                     THEN rows[i][fieldnames[j]] ELSE Blank]]]

(***************************************************************************)
(* AuditQGISProjects: inputs                                               *)
(***************************************************************************)
projects_root_directory == <<"/", "a">>

\* files that may lie under the root directory
FileX == <<"/", "a", "/", "X", ".qgs">>
FileXCfg == FileX \o <<".cfg">>
FileAX == <<"/", "a", "/", "a", "/", "X", ".qgs">>
FileB == <<"/", "a", "/", "b", ".qgz">>
FileN == <<"/", "a", "/", "n", ".txt">>

DirPool ==
    {{}, {FileN}, {FileX, FileXCfg, FileN}, {FileAX, FileX}, {FileB, FileX, FileXCfg}}

\* layers a project may hold: name, the datasource element of the layer's
\* XML (a text, no text at all, or XML that does not parse), provider, the
\* schema and table of its URI, validity
LayerPool ==
    {[id |-> 1, name |-> <<"R">>, xml |-> "text", ds |-> <<" ", "d">>,
      provider |-> "postgres", schema |-> <<"s">>, table |-> <<"t">>, valid |-> TRUE],
     [id |-> 2, name |-> <<"m">>, xml |-> "text", ds |-> <<"d">>,
      provider |-> "postgres", schema |-> <<"s">>, table |-> <<"t">>, valid |-> FALSE],
     [id |-> 3, name |-> <<"r">>, xml |-> "text", ds |-> <<"a">>,
      provider |-> "postgres", schema |-> <<"s">>, table |-> <<"a">>, valid |-> TRUE],
     [id |-> 4, name |-> <<"m">>, xml |-> "malformed", ds |-> <<>>,
      provider |-> "ogr", schema |-> <<>>, table |-> <<>>, valid |-> FALSE],
     [id |-> 5, name |-> <<"m">>, xml |-> "notext", ds |-> <<>>,
      provider |-> "memory", schema |-> <<>>, table |-> <<>>, valid |-> TRUE]}

\* p.mapLayers() of a project: up to MaxLayers layers, ordered by layer id
LayerLists ==
    {ls \in UNION {[1..k -> LayerPool] : k \in 0..MaxLayers} :
        \A i \in 1..(Len(ls) - 1) : ls[i].id < ls[i + 1].id}

NameFilterPool == {<<>>, <<"r">>}
DatasourceFilterPool == {<<>>, <<"d">>}
OutputPathPool == {"TEMPORARY_OUTPUT", "out.csv"}

\* glob(os.path.join(x[0], '*.qg?'))
IsProjectFile(file) == file[Len(file)] \in {".qgs", ".qgz"}

InitAudit ==
    /\ script = "audit"
    /\ canceled = FALSE
    /\ IdleUpdate
    /\ IdleJoins
    /\ IdleSub
    /\ IdleExport
    /\ IdleMain
    /\ IdleImport
    /\ directory \in DirPool
    /\ dont_resolve_layers \in BOOLEAN
    /\ get_lizmap_config_properties \in BOOLEAN
    /\ layer_name_filter \in NameFilterPool
    /\ layer_datasource_filter \in DatasourceFilterPool
    /\ output_csv_layers_path \in OutputPathPool
    /\ output_csv_tables_path \in OutputPathPool
    /\ qgis_project_files = <<>>
    /\ apc = "list" /\ pidx = 0 /\ layers = <<>> /\ lidx = 0
    /\ name_matches = <<>> /\ datasource_matches = <<>>
    /\ projects = <<>> /\ exported_datasources = <<>>
    /\ unique_postgresql_tables = <<>> /\ filtered_project_number = 0
    /\ csv_projects = NoFile /\ csv_layers = NoFile /\ csv_tables = NoFile
    /\ messages = {}

(***************************************************************************)
(* AuditQGISProjects: steps of processAlgorithm                            *)
(***************************************************************************)
GHOST == <<"GHOST">>

\* the variables of the audit that hold its parameters
aparams == <<directory, dont_resolve_layers, layer_name_filter,
             layer_datasource_filter, get_lizmap_config_properties,
             output_csv_layers_path, output_csv_tables_path>>

\* a listing that goes on with an empty list of projects
ListProjectsNoReturn ==
    /\ script = "audit" /\ apc = "list"
    /\ qgis_project_files' = SortedCaseInsensitive({f \in directory : IsProjectFile(f)})
    /\ pidx' = 1
    /\ apc' = "loop"
    /\ UNCHANGED <<script, canceled, aparams, layers, lidx, name_matches,
                   datasource_matches, projects, exported_datasources,
                   unique_postgresql_tables, filtered_project_number,
                   csv_projects, csv_layers, csv_tables, messages, uvars, jvars,
                   svars, xvars, mvars, ivars>>

\* list the project files; return at once when there is none; sort them
ListProjects ==
    /\ script = "audit" /\ apc = "list"
    /\ LET found == {f \in directory : IsProjectFile(f)}
       IN  IF found = {}
           THEN /\ messages' = messages \cup {"No project found"}
                /\ apc' = "done"
                /\ UNCHANGED <<qgis_project_files, pidx>>
           ELSE /\ qgis_project_files' = SortedCaseInsensitive(found)
                /\ pidx' = 1
                /\ apc' = "loop"
                /\ UNCHANGED messages
    /\ UNCHANGED <<script, canceled, aparams, layers, lidx, name_matches,
                   datasource_matches, projects, exported_datasources,
                   unique_postgresql_tables, filtered_project_number,
                   csv_projects, csv_layers, csv_tables, uvars, jvars, svars, xvars, mvars,
                   ivars>>

project_file == qgis_project_files[pidx]

project_relative_file == RemoveAll(project_file, projects_root_directory)

\* head of the loop on projects: if feedback.isCanceled(): break
BreakOnCancel ==
    /\ script = "audit" /\ apc = "loop" /\ pidx <= Len(qgis_project_files)
    /\ canceled
    /\ apc' = "write_projects"
    /\ UNCHANGED <<script, canceled, aparams, qgis_project_files, pidx, layers,
                   lidx, name_matches, datasource_matches, projects,
                   exported_datasources, unique_postgresql_tables,
                   filtered_project_number, csv_projects, csv_layers, csv_tables,
                   messages, uvars, jvars, svars, xvars, mvars, ivars>>

\* a loop head that does not look at the feedback
ReadProjectUnpolled ==
    /\ script = "audit" /\ apc = "loop" /\ pidx <= Len(qgis_project_files)
    /\ \E ls \in LayerLists : layers' = ls
    /\ lidx' = 1
    /\ name_matches' = <<>>
    /\ datasource_matches' = <<>>
    /\ apc' = "layers"
    /\ UNCHANGED <<script, canceled, aparams, qgis_project_files, pidx, projects,
                   exported_datasources, unique_postgresql_tables,
                   filtered_project_number, csv_projects, csv_layers, csv_tables,
                   messages, uvars, jvars, svars, xvars, mvars, ivars>>

\* not canceled: p.read(project_file), the layers of the project are an input
ReadProject ==
    /\ script = "audit" /\ apc = "loop" /\ pidx <= Len(qgis_project_files)
    /\ ~canceled
    /\ \E ls \in LayerLists : layers' = ls
    /\ lidx' = 1
    /\ name_matches' = <<>>
    /\ datasource_matches' = <<>>
    /\ apc' = "layers"
    /\ UNCHANGED <<script, canceled, aparams, qgis_project_files, pidx, projects,
                   exported_datasources, unique_postgresql_tables,
                   filtered_project_number, csv_projects, csv_layers, csv_tables,
                   messages, uvars, jvars, svars, xvars, mvars, ivars>>

\* the loop on projects is exhausted
EndLoop ==
    /\ script = "audit" /\ apc = "loop" /\ pidx > Len(qgis_project_files)
    /\ apc' = "write_projects"
    /\ UNCHANGED <<script, canceled, aparams, qgis_project_files, pidx, layers,
                   lidx, name_matches, datasource_matches, projects,
                   exported_datasources, unique_postgresql_tables,
                   filtered_project_number, csv_projects, csv_layers, csv_tables,
                   messages, uvars, jvars, svars, xvars, mvars, ivars>>

\* a parser whose ParseError is not caught
DatasourceOfFatal(layer) ==
    CASE layer.xml = "text" ->
            [raised |-> "none", ghost |-> FALSE, text |-> Strip(layer.ds)]
      [] layer.xml = "malformed" ->
            [raised |-> "ParseError", ghost |-> FALSE, text |-> <<>>]
      [] layer.xml = "notext" ->
            [raised |-> "AttributeError", ghost |-> FALSE, text |-> <<>>]

\* root = et.fromstring(xml); datasource = root.find('datasource').text, GHOST
\* on a ParseError; datasource.strip(), which raises when the text is None
DatasourceOf(layer) ==
    CASE layer.xml = "text" ->
            [raised |-> "none", ghost |-> FALSE, text |-> Strip(layer.ds)]
      [] layer.xml = "malformed" ->
            [raised |-> "none", ghost |-> TRUE, text |-> GHOST]
      [] layer.xml = "notext" ->
            [raised |-> "AttributeError", ghost |-> FALSE, text |-> <<>>]

\* body of the loop on the layers of a project
ParseLayer ==
    /\ script = "audit" /\ apc = "layers" /\ lidx <= Len(layers)
    /\ LET layer == layers[lidx]
           parsed == DatasourceOf(layer)
           datasource == parsed.text
           layer_name == Strip(layer.name)
           name_ok == Contains(LowerStr(layer_name_filter), LowerStr(layer_name))
           match_name == layer_name_filter = <<>> \/ name_ok
           ds_ok == Contains(layer_datasource_filter, datasource)
           match_datasource == layer_datasource_filter = <<>> \/ ds_ok
           kept == match_name /\ match_datasource /\ datasource # <<>>
       IN  IF parsed.raised # "none"
           THEN /\ apc' = "crashed"
                /\ messages' = messages \cup {parsed.raised}
                /\ UNCHANGED <<lidx, name_matches, datasource_matches,
                               exported_datasources, unique_postgresql_tables>>
           ELSE /\ messages' = IF parsed.ghost
                               THEN messages \cup {"Error while parsing datasource"}
                               ELSE messages
                /\ name_matches' =
                      IF layer_name_filter # <<>> /\ name_ok
                      THEN Append(name_matches, layer.id) ELSE name_matches
                /\ datasource_matches' =
                      IF layer_datasource_filter # <<>> /\ ds_ok
                      THEN Append(datasource_matches, layer.id)
                      ELSE datasource_matches
                /\ unique_postgresql_tables' =
                      IF /\ kept
                         /\ output_csv_tables_path # "TEMPORARY_OUTPUT"
                         /\ layer.provider = "postgres"
                      THEN RecordTable(unique_postgresql_tables,
                                       TableName(layer.schema, layer.table),
                                       project_relative_file)
                      ELSE unique_postgresql_tables
                /\ exported_datasources' =
                      IF kept /\ output_csv_layers_path # "TEMPORARY_OUTPUT"
                      THEN RecordDatasource(exported_datasources, datasource,
                                            layer_name, project_relative_file)
                      ELSE exported_datasources
                /\ lidx' = lidx + 1
                /\ UNCHANGED apc
    /\ UNCHANGED <<script, canceled, aparams, qgis_project_files, pidx, layers,
                   projects, filtered_project_number, csv_projects, csv_layers,
                   csv_tables, uvars, jvars, svars, xvars, mvars, ivars>>

\* os.path.isfile(project_file + '.cfg')
HasLizmapConfig(dir, file) == (file \o <<".cfg">>) \in dir

\* the Lizmap keys of a project record, cfg telling whether the .cfg file exists
LizmapProperties(cfg) ==
    [has_lizmap_config |-> Str(IF cfg THEN <<"True">> ELSE <<"False">>),
     qgis_desktop_version |-> IF cfg THEN HostValue ELSE Blank,
     lizmap_plugin_version |-> IF cfg THEN HostValue ELSE Blank,
     lizmap_web_client_target_version |-> IF cfg THEN HostValue ELSE Blank,
     project_valid |-> IF cfg THEN HostValue ELSE Blank]

\* a project record without its last_save_version
ProjectRecordShort(file, lyrs, dont_resolve, lizmap, cfg) ==
    LET invalid == Cardinality({k \in 1..Len(lyrs) : ~lyrs[k].valid})
        base == [path |-> Str(file),
                 basename |-> HostValue,
                 last_modified |-> HostValue,
                 crs |-> HostValue,
                 layer_count |-> Num(Len(lyrs)),
                 memory_usage_mb |-> HostValue,
                 invalid_layer_count |-> IF dont_resolve THEN Blank ELSE Num(invalid),
                 print_layout_count |-> HostValue,
                 print_layout_pictures_paths |-> HostValue,
                 print_layout_pictures_sizes |-> HostValue,
                 print_layout_pictures_total_size |-> HostValue,
                 print_layout_pictures_total_size_mb |-> HostValue,
                 trust_option_active |-> HostValue]
    IN  IF lizmap THEN base @@ LizmapProperties(cfg) ELSE base

\* the record of a project: project['path'] = ... to project['project_valid']
ProjectRecord(file, lyrs, dont_resolve, lizmap, cfg) ==
    LET invalid == Cardinality({k \in 1..Len(lyrs) : ~lyrs[k].valid})
        base == [path |-> Str(file),
                 basename |-> HostValue,
                 last_modified |-> HostValue,
                 crs |-> HostValue,
                 layer_count |-> Num(Len(lyrs)),
                 memory_usage_mb |-> HostValue,
                 invalid_layer_count |-> IF dont_resolve THEN Blank ELSE Num(invalid),
                 print_layout_count |-> HostValue,
                 print_layout_pictures_paths |-> HostValue,
                 print_layout_pictures_sizes |-> HostValue,
                 print_layout_pictures_total_size |-> HostValue,
                 print_layout_pictures_total_size_mb |-> HostValue,
                 trust_option_active |-> HostValue,
                 last_save_version |-> HostValue]
    IN  IF lizmap THEN base @@ LizmapProperties(cfg) ELSE base

\* after the layers of a project: skip the project when a filter is set and
\* no layer matched it, else build its record and append it
EndProject ==
    /\ script = "audit" /\ apc = "layers" /\ lidx > Len(layers)
    /\ IF \/ layer_name_filter # <<>> /\ name_matches = <<>>
          \/ layer_datasource_filter # <<>> /\ datasource_matches = <<>>
       THEN /\ messages' = messages \cup {"No layers for this project matches"}
            /\ UNCHANGED <<projects, filtered_project_number>>
       ELSE /\ filtered_project_number' = filtered_project_number + 1
            /\ projects' = Append(projects,
                  ProjectRecord(project_file, layers, dont_resolve_layers,
                                get_lizmap_config_properties,
                                HasLizmapConfig(directory, project_file)))
            /\ UNCHANGED messages
    /\ pidx' = pidx + 1
    /\ apc' = "loop"
    /\ UNCHANGED <<script, canceled, aparams, qgis_project_files, layers, lidx,
                   name_matches, datasource_matches, exported_datasources,
                   unique_postgresql_tables, csv_projects, csv_layers, csv_tables,
                   uvars, jvars, svars, xvars, mvars, ivars>>

\* fieldnames of the projects CSV
ProjectFieldnames(lizmap) ==
    <<"path", "basename", "last_modified", "crs", "layer_count",
      "invalid_layer_count", "memory_usage_mb", "print_layout_count",
      "print_layout_pictures_paths", "print_layout_pictures_sizes",
      "print_layout_pictures_total_size", "print_layout_pictures_total_size_mb",
      "trust_option_active", "last_save_version">>
    \o (IF lizmap
        THEN <<"has_lizmap_config", "qgis_desktop_version", "lizmap_plugin_version",
               "lizmap_web_client_target_version", "project_valid">>
        ELSE <<>>)

\* write the projects CSV
WriteProjectsCsv ==
    /\ script = "audit" /\ apc = "write_projects"
    /\ LET fieldnames == ProjectFieldnames(get_lizmap_config_properties)
       IN  IF HasExtras(fieldnames, projects)
           THEN /\ apc' = "crashed"
                /\ messages' = messages \cup {"ValueError"}
                /\ UNCHANGED csv_projects
           ELSE /\ csv_projects' = WriteCsv(fieldnames, projects)
                /\ apc' = "write_layers"
                /\ UNCHANGED messages
    /\ UNCHANGED <<script, canceled, aparams, qgis_project_files, pidx, layers,
                   lidx, name_matches, datasource_matches, projects,
                   exported_datasources, unique_postgresql_tables,
                   filtered_project_number, csv_layers, csv_tables, uvars, jvars, svars, xvars, mvars,
                   ivars>>

\* the rows of the layers CSV taken in the order of the dict, without sorted()
LayerRowsInsertionOrder(dict) ==
    [i \in 1..Len(dict) |->
        [datasource |-> Str(dict[i].key),
         layer_names |-> Str(JoinBar(dict[i].names)),
         projects |-> Str(JoinBar(dict[i].projects))]]

\* the rows of the layers CSV: for datasource in sorted(exported_datasources.keys())
LayerRows(dict) ==
    LET keys == Sorted({dict[k].key : k \in 1..Len(dict)})
    IN  [i \in 1..Len(keys) |->
            LET item == dict[IndexOfKey(dict, keys[i])]
            IN  [datasource |-> Str(keys[i]),
                 layer_names |-> Str(JoinBar(item.names)),
                 projects |-> Str(JoinBar(item.projects))]]

\* the rows of the tables CSV: for table in sorted(unique_postgresql_tables.keys())
TableRows(dict) ==
    LET keys == Sorted({dict[k].key : k \in 1..Len(dict)})
    IN  [i \in 1..Len(keys) |->
            LET item == dict[IndexOfKey(dict, keys[i])]
            IN  [table |-> Str(keys[i]),
                 projects |-> Str(JoinBar(item.projects))]]

\* the optional layers CSV
WriteLayersCsv ==
    /\ script = "audit" /\ apc = "write_layers"
    /\ csv_layers' =
          IF output_csv_layers_path # "TEMPORARY_OUTPUT"
          THEN WriteCsv(<<"datasource", "layer_names", "projects">>,
                        LayerRows(exported_datasources))
          ELSE csv_layers
    /\ apc' = "write_tables"
    /\ UNCHANGED <<script, canceled, aparams, qgis_project_files, pidx, layers,
                   lidx, name_matches, datasource_matches, projects,
                   exported_datasources, unique_postgresql_tables,
                   filtered_project_number, csv_projects, csv_tables, messages,
                   uvars, jvars, svars, xvars, mvars, ivars>>

\* the optional tables CSV; return {}
WriteTablesCsv ==
    /\ script = "audit" /\ apc = "write_tables"
    /\ csv_tables' =
          IF output_csv_tables_path # "TEMPORARY_OUTPUT"
          THEN WriteCsv(<<"table", "projects">>, TableRows(unique_postgresql_tables))
          ELSE csv_tables
    /\ apc' = "done"
    /\ UNCHANGED <<script, canceled, aparams, qgis_project_files, pidx, layers,
                   lidx, name_matches, datasource_matches, projects,
                   exported_datasources, unique_postgresql_tables,
                   filtered_project_number, csv_projects, csv_layers, messages,
                   uvars, jvars, svars, xvars, mvars, ivars>>

NextAudit ==
    \/ ListProjects
    \/ BreakOnCancel
    \/ ReadProject
    \/ EndLoop
    \/ ParseLayer
    \/ EndProject
    \/ WriteProjectsCsv
    \/ WriteLayersCsv
    \/ WriteTablesCsv

(***************************************************************************)
(* AddJoinsForRelationFieldsAlgorithm                                      *)
(***************************************************************************)
\* fields of a selected layer: the editor widget, the layer the widget points
\* to ("missing" when the project has no such layer), what addJoin answers
PlainField == [name |-> "n", widget |-> "TextEdit", target |-> "", addok |-> TRUE]
RelationField == [name |-> "k", widget |-> "ValueRelation", target |-> "t", addok |-> TRUE]
RefusedField == [name |-> "r", widget |-> "ValueRelation", target |-> "t", addok |-> FALSE]
DanglingField == [name |-> "g", widget |-> "ValueRelation", target |-> "missing", addok |-> TRUE]

\* layers that may be selected; found: context.project().mapLayer(id) finds it
SelectablePool ==
    {[name |-> "p", found |-> TRUE, fields |-> <<PlainField, RelationField>>],
     [name |-> "q", found |-> TRUE, fields |-> <<RefusedField, RelationField>>],
     [name |-> "w", found |-> TRUE, fields |-> <<DanglingField>>],
     [name |-> "z", found |-> FALSE, fields |-> <<>>]}

\* join_layer.fields() of the layer a value relation points to
TargetFields(target) == <<<<"id">>, <<"label">>>>

\* self.prefix.format(join_layer.name()) + join_field.name()
JoinedFieldName(target, field) == <<target, "_">> \o field

\* f.endswith('_ogc_fid') or f.endswith('_id')
IsIdField(f) ==
    \/ Len(f) >= 2 /\ SubSeq(f, Len(f) - 1, Len(f)) = <<"_", "id">>
    \/ Len(f) >= 2 /\ SubSeq(f, Len(f) - 1, Len(f)) = <<"_", "ogc_fid">>

InitJoins ==
    /\ script = "joins"
    /\ canceled = FALSE
    /\ IdleUpdate
    /\ IdleAudit
    /\ IdleSub
    /\ IdleExport
    /\ IdleMain
    /\ IdleImport
    /\ sel_layers \in {ls \in UNION {[1..k -> SelectablePool] : k \in 1..MaxSelected} :
                          \A i, j \in 1..Len(ls) : i # j => ls[i] # ls[j]}
    /\ drop \in BOOLEAN
    /\ jpc = "layer" /\ jidx = 1 /\ fidx = 0
    /\ joined_fields = <<>> /\ failed = <<>>
    /\ vector_joins = [i \in 1..Len(sel_layers) |-> <<"existing">>]
    /\ exclude_wms = [i \in 1..Len(sel_layers) |-> <<>>]
    /\ exclude_wfs = [i \in 1..Len(sel_layers) |-> <<>>]
    /\ raised = "none"

\* head of the loop on layers: look the layer up, reportError when it is not
\* in the project (layer is None there, so layer.name() raises), drop the joins
StartLayer ==
    /\ script = "joins" /\ jpc = "layer" /\ jidx <= Len(sel_layers)
    /\ IF ~sel_layers[jidx].found
       THEN /\ raised' = "AttributeError"
            /\ jpc' = "raised"
            /\ UNCHANGED <<joined_fields, vector_joins, fidx>>
       ELSE /\ joined_fields' = <<>>
            /\ vector_joins' = IF drop THEN [vector_joins EXCEPT ![jidx] = <<>>]
                                       ELSE vector_joins
            /\ fidx' = 1
            /\ jpc' = "fields"
            /\ UNCHANGED raised
    /\ UNCHANGED <<script, canceled, sel_layers, drop, jidx, failed, exclude_wms,
                   exclude_wfs, uvars, avars, svars, xvars, mvars, ivars>>

\* body of the loop on fields: add a join for a value relation field
ProcessField ==
    /\ script = "joins" /\ jpc = "fields" /\ fidx <= Len(sel_layers[jidx].fields)
    /\ LET layer == sel_layers[jidx]
           field == layer.fields[fidx]
       IN  IF field.widget # "ValueRelation"
           THEN /\ fidx' = fidx + 1
                /\ UNCHANGED <<jpc, raised, failed, vector_joins, joined_fields>>
           ELSE IF field.target = "missing"
           THEN /\ raised' = "AttributeError"
                /\ jpc' = "raised"
                /\ UNCHANGED <<fidx, failed, vector_joins, joined_fields>>
           ELSE IF ~field.addok
           THEN /\ failed' = Append(failed, layer.name)
                /\ fidx' = fidx + 1
                /\ UNCHANGED <<jpc, raised, vector_joins, joined_fields>>
           ELSE /\ vector_joins' = [vector_joins EXCEPT ![jidx] = Append(@, field.name)]
                /\ joined_fields' =
                      joined_fields \o
                      [k \in 1..Len(TargetFields(field.target)) |->
                          JoinedFieldName(field.target, TargetFields(field.target)[k])]
                /\ fidx' = fidx + 1
                /\ UNCHANGED <<jpc, raised, failed>>
    /\ UNCHANGED <<script, canceled, sel_layers, drop, jidx, exclude_wms,
                   exclude_wfs, uvars, avars, svars, xvars, mvars, ivars>>

\* after the fields of a layer: uncheck WMS for the joined fields, WFS for ids
FinishLayer ==
    /\ script = "joins" /\ jpc = "fields" /\ fidx > Len(sel_layers[jidx].fields)
    /\ exclude_wms' = [exclude_wms EXCEPT ![jidx] = joined_fields]
    /\ exclude_wfs' = [exclude_wfs EXCEPT ![jidx] = SelectSeq(joined_fields, IsIdField)]
    /\ jidx' = jidx + 1
    /\ jpc' = "layer"
    /\ UNCHANGED <<script, canceled, sel_layers, drop, fidx, joined_fields, failed,
                   vector_joins, raised, uvars, avars, svars, xvars, mvars,
                   ivars>>

\* after the last layer: raise QgsProcessingException when a join failed
FinishJoins ==
    /\ script = "joins" /\ jpc = "layer" /\ jidx > Len(sel_layers)
    /\ IF failed # <<>>
       THEN raised' = "QgsProcessingException" /\ jpc' = "raised"
       ELSE raised' = raised /\ jpc' = "done"
    /\ UNCHANGED <<script, canceled, sel_layers, drop, jidx, fidx, joined_fields,
                   failed, vector_joins, exclude_wms, exclude_wfs, uvars, avars,
                   svars, xvars, mvars, ivars>>

NextJoins ==
    \/ StartLayer
    \/ ProcessField
    \/ FinishLayer
    \/ FinishJoins

SpecJoins == InitJoins /\ [][NextJoins]_vars

(***************************************************************************)
(***************************************************************************)
(* ExportPostgresqlTablesToGeopackage                                      *)
(***************************************************************************)
\* text.split(sep): the pieces of a text between the separators
RECURSIVE Split(_, _)
Split(text, sep) ==
    IF \A k \in 1..Len(text) : text[k] # sep
    THEN <<text>>
    ELSE LET k == CHOOSE i \in 1..Len(text) :
                     text[i] = sep /\ \A j \in 1..(i - 1) : text[j] # sep
         IN  <<SubSeq(text, 1, k - 1)>> \o Split(SubSeq(text, k + 1, Len(text)), sep)

\* ','.join(list)
RECURSIVE JoinComma(_)
JoinComma(list) ==
    IF list = <<>> THEN <<>>
    ELSE IF Len(list) = 1 THEN list[1]
    ELSE list[1] \o <<",">> \o JoinComma(Tail(list))

\* ','.join([s.strip() for s in schemas.split(',')])
StripEach(text) ==
    LET parts == Split(text, ",")
    IN  JoinComma([k \in 1..Len(parts) |-> Strip(parts[k])])

\* output_path.lower().endswith('.gpkg')
EndsWithGpkg(path) == path # <<>> /\ path[Len(path)] \in {".gpkg", ".GPKG"}

\* the tables of the database behind the connection
Database ==
    {[schema |-> <<"public">>, name |-> <<"public.spatial_ref_sys">>],
     [schema |-> <<"public">>, name |-> <<"public.t">>],
     [schema |-> <<"other">>, name |-> <<"other.t">>]}

ServicePool == {<<>>, <<"svc">>}
SchemasPool == {<<"public">>, <<"public", ",", " ", "other">>, <<" ", "other">>}
BlockListPool ==
    {<<>>, <<"public.spatial_ref_sys">>, <<"public.t">>,
     <<"public.spatial_ref_sys", ",", " ", "other.t">>}
DestinationPool == {<<"out">>, <<"out", ".gpkg">>, <<"out", ".GPKG">>}

InitExport ==
    /\ script = "export"
    /\ canceled = FALSE
    /\ IdleUpdate
    /\ IdleAudit
    /\ IdleJoins
    /\ IdleSub
    /\ IdleMain
    /\ IdleImport
    /\ connection_service \in ServicePool
    /\ schemas \in SchemasPool
    /\ tables_block_list \in BlockListPool
    /\ output_path \in DestinationPool
    /\ gpkg \in {NoGpkg, [exists |-> TRUE, tables |-> {<<"previous">>}]}
    /\ ogr_source = <<>> /\ ogr_arguments = <<>>
    /\ xpc = "params" /\ xraised = "none"

\* read the parameters, rebuild the list of schemas, complete the path and
\* delete the GeoPackage a previous run left there
ReadExportParameters ==
    /\ script = "export" /\ xpc = "params"
    /\ schemas' = StripEach(schemas)
    /\ output_path' = IF EndsWithGpkg(output_path) THEN output_path
                      ELSE output_path \o <<".gpkg">>
    /\ gpkg' = NoGpkg
    /\ xpc' = "build"
    /\ UNCHANGED <<script, canceled, connection_service, tables_block_list,
                   ogr_source, ogr_arguments, xraised, uvars, avars, jvars, svars,
                   mvars, ivars>>

\* 'PG:service=%s schemas=%s ' or 'PG:host=%s port=%s ... schemas=%s '
OgrSource(service, schema_list) ==
    IF service # <<>>
    THEN <<"PG:service=">> \o service \o <<" schemas=">> \o schema_list \o <<" ">>
    ELSE <<"PG:host=", "host", " port=", "port", " dbname=", "database",
           " user=", "username", " password=", "password", " schemas=">>
         \o schema_list \o <<" ">>

\* the arguments of ogr2ogr, each one a text
OgrArguments(path, source) ==
    << <<>>, <<"-overwrite">>, <<"-progress">>, <<"-f">>, <<"GPKG">>, path, source,
       <<"-lco">>, <<"GEOMETRY_NAME=geom">>, <<"-lco">>, <<"SPATIAL_INDEX=YES">>,
       <<"-gt">>, <<"50000">>,
       <<"--config">>, <<"PG_LIST_ALL_TABLES">>, <<"YES">>,
       <<"--config">>, <<"PG_SKIP_VIEWS">>, <<"YES">>,
       <<"--config">>, <<"OGR_SQLITE_SYNCHRONOUS">>, <<"OFF">>,
       <<"--config">>, <<"OGR_SQLITE_CACHE">>, <<"1024">> >>

\* build ogr_source and ogr_arguments
BuildOgrCommand ==
    /\ script = "export" /\ xpc = "build"
    /\ ogr_source' = OgrSource(connection_service, schemas)
    /\ ogr_arguments' = OgrArguments(output_path, ogr_source')
    /\ xpc' = "run"
    /\ UNCHANGED <<script, canceled, connection_service, schemas,
                   tables_block_list, output_path, gpkg, xraised, uvars, avars,
                   jvars, svars, mvars, ivars>>

\* the tables ogr2ogr is asked to convert: the source names schemas and the
\* arguments name no layer, so every table of the listed schemas
RequestedTables(arguments) ==
    LET source == arguments[7]
        k == CHOOSE i \in 1..Len(source) : source[i] = " schemas="
        listed == Range(Split(SubSeq(source, k + 1, Len(source) - 1), ","))
    IN  {t.name : t \in {d \in Database : d.schema \in listed}}

\* GdalUtils.runGdal: ogr2ogr writes the GeoPackage, or fails and writes none
RunGdal ==
    /\ script = "export" /\ xpc = "run"
    /\ \/ gpkg' = [exists |-> TRUE, tables |-> RequestedTables(ogr_arguments)]
       \/ gpkg' = NoGpkg
    /\ xpc' = "ran"
    /\ UNCHANGED <<script, canceled, connection_service, schemas,
                   tables_block_list, output_path, ogr_source, ogr_arguments,
                   xraised, uvars, avars, jvars, svars, mvars, ivars>>

\* raise when the GeoPackage is not there, else return {}
FinishExport ==
    /\ script = "export" /\ xpc = "ran"
    /\ IF ~gpkg.exists
       THEN xraised' = "QgsProcessingException" /\ xpc' = "raised"
       ELSE xraised' = xraised /\ xpc' = "done"
    /\ UNCHANGED <<script, canceled, connection_service, schemas,
                   tables_block_list, output_path, gpkg, ogr_source,
                   ogr_arguments, uvars, avars, jvars, svars, mvars, ivars>>

NextExport ==
    \/ ReadExportParameters
    \/ BuildOgrCommand
    \/ RunGdal
    \/ FinishExport

SpecExport == InitExport /\ [][NextExport]_vars

(***************************************************************************)
(* SetFeatureMainColor                                                     *)
(***************************************************************************)
\* renderers of the input layer: type, and for a categorized renderer its
\* categories (value, label, colour of the symbol, number of symbol layers)
Category(value, label, rgb) ==
    [value |-> value, label |-> label, rgb |-> rgb, symbol_layers |-> 1]

RendererPool ==
    {[type |-> "singleSymbol", categories |-> <<>>],
     [type |-> "heatmapRenderer", categories |-> <<>>],
     [type |-> "categorizedSymbol",
      categories |-> <<Category("c1", "one", "255,0,0")>>],
     [type |-> "categorizedSymbol",
      categories |-> <<Category("c1", "one", "255,0,0"),
                       Category("c2", "two", "0,0,255")>>]}

\* features of the layer: the attribute the renderer classifies, and the
\* values of the fields COLOR_FIELD and LABEL_FIELD may name
Feature(class) == [class |-> class, mcolor |-> <<"old">>, mlabel |-> <<"old">>]

FeatureLists ==
    UNION {[1..k -> {Feature("c1"), Feature("c2"), Feature("c3")}] :
              k \in 0..MaxFeatures}

SymbolLevelPool == {-1, 0, 5}

InitMain ==
    /\ script = "main"
    /\ canceled = FALSE
    /\ IdleUpdate
    /\ IdleAudit
    /\ IdleJoins
    /\ IdleSub
    /\ IdleExport
    /\ IdleImport
    /\ color_field \in {"", "mcolor"}
    /\ virtual_color_field \in {"", "vcolor"}
    /\ label_field \in {"", "mlabel"}
    /\ virtual_label_field \in {"", "vlabel"}
    /\ symbol_level \in SymbolLevelPool
    /\ renderer \in RendererPool
    /\ features \in FeatureLists
    /\ expression_fields = {}
    /\ color_expression = <<>> /\ label_expression = <<>>
    /\ feature_idx = 0 /\ mpc = "check" /\ mresult = "none"

\* the variables of the main colour script that hold its parameters
mparams == <<color_field, virtual_color_field, label_field, virtual_label_field,
             symbol_level, renderer>>

\* (not color_field and not virtual_color_field) or (color_field and
\* virtual_color_field): the parameters are refused
CheckColorFields(cf, vcf) ==
    ~ ((cf = "" /\ vcf = "") \/ (cf # "" /\ vcf # ""))

\* (not label_field and not virtual_label_field) and (label_field and
\* virtual_label_field): the parameters are refused
CheckLabelFields(lf, vlf) ==
    ~ ((lf = "" /\ vlf = "") /\ (lf # "" /\ vlf # ""))

\* checkParameterValues, the other parameters being valid
CheckParameterValues ==
    /\ script = "main" /\ mpc = "check"
    /\ IF ~CheckColorFields(color_field, virtual_color_field)
       THEN mresult' = "Color : you need to choose" /\ mpc' = "rejected"
       ELSE IF ~CheckLabelFields(label_field, virtual_label_field)
       THEN mresult' = "Label : you need to choose" /\ mpc' = "rejected"
       ELSE mresult' = mresult /\ mpc' = "expressions"
    /\ UNCHANGED <<script, canceled, mparams, features, expression_fields,
                   color_expression, label_expression, feature_idx, uvars,
                   avars, jvars, svars, xvars, ivars>>

\* getSymbolMainColor calls self.feedback(...), which is no function, when
\* -1 < self.symbol_level <= len(symbol_layers) - 1
SymbolLevelInRange(level, category) ==
    -1 < level /\ level <= category.symbol_layers - 1

\* getLayerLegendConfig raises TypeError: a single symbol renderer calls
\* self.feedback(...) at once, a categorized one in getSymbolMainColor
LegendConfigRaises(rend, level) ==
    \/ rend.type = "singleSymbol"
    \/ /\ rend.type = "categorizedSymbol"
       /\ \E k \in 1..Len(rend.categories) :
              SymbolLevelInRange(level, rend.categories[k])

\* getSymbolMainColor by QGIS best guess: red,green,blue and the opacity
MainColor(category) == <<category.rgb, ",", "255">>

\* getLayerLegendConfig: one item for each category of a categorized renderer
LegendConfig(rend) ==
    IF rend.type = "categorizedSymbol"
    THEN [k \in 1..Len(rend.categories) |->
             [label |-> rend.categories[k].label,
              expression |-> rend.categories[k].value,
              color |-> MainColor(rend.categories[k])]]
    ELSE <<>>

\* getColorExpressionFromSymbology: CASE WHEN .. THEN 'rgba(..)' .. ELSE .. END
ColorExpression(items) ==
    [k \in 1..Len(items) |->
        [when |-> items[k].expression,
         then |-> <<"rgba(">> \o items[k].color \o <<")">>]]
    \o <<[when |-> "ELSE", then |-> <<"rgba(", "255,255,255,0.0", ")">>]>>

\* getLabelExpressionFromSymbology: CASE WHEN .. THEN '..' .. ELSE NULL END
LabelExpression(items) ==
    [k \in 1..Len(items) |->
        [when |-> items[k].expression, then |-> <<items[k].label>>]]
    \o <<[when |-> "ELSE", then |-> <<"NULL">>]>>

\* exp.evaluate(exp_context) for a feature: the first clause that applies
Evaluate(expression, feature) ==
    LET k == CHOOSE i \in 1..Len(expression) :
                 /\ expression[i].when \in {feature.class, "ELSE"}
                 /\ \A j \in 1..(i - 1) :
                        expression[j].when \notin {feature.class, "ELSE"}
    IN  expression[k].then

\* compute the two expressions; raise when one of them is empty
ComputeExpressions ==
    /\ script = "main" /\ mpc = "expressions"
    /\ IF LegendConfigRaises(renderer, symbol_level)
       THEN /\ mresult' = "TypeError" /\ mpc' = "raised"
            /\ UNCHANGED <<color_expression, label_expression>>
       ELSE /\ color_expression' = ColorExpression(LegendConfig(renderer))
            /\ label_expression' = LabelExpression(LegendConfig(renderer))
            /\ IF color_expression' = <<>> \/ label_expression' = <<>>
               THEN mresult' = "QgsProcessingException" /\ mpc' = "raised"
               ELSE mresult' = mresult /\ mpc' = "edit"
    /\ UNCHANGED <<script, canceled, mparams, features, expression_fields,
                   feature_idx, uvars, avars, jvars, svars, xvars, ivars>>

\* if color_field and label_field: begin the edit command and get the features
BeginEdit ==
    /\ script = "main" /\ mpc = "edit"
    /\ IF color_field # "" /\ label_field # ""
       THEN feature_idx' = 1 /\ mpc' = "features"
       ELSE feature_idx' = feature_idx /\ mpc' = "virtual"
    /\ UNCHANGED <<script, canceled, mparams, features, expression_fields,
                   color_expression, label_expression, mresult, uvars, avars,
                   jvars, svars, xvars, ivars>>

\* head of the loop on features: if feedback.isCanceled(): break
BreakOnCancelMain ==
    /\ script = "main" /\ mpc = "features" /\ feature_idx <= Len(features)
    /\ canceled
    /\ mpc' = "virtual"
    /\ UNCHANGED <<script, canceled, mparams, features, expression_fields,
                   color_expression, label_expression, feature_idx, mresult,
                   uvars, avars, jvars, svars, xvars, ivars>>

\* body of the loop: change the colour and the label attribute of the feature
EditFeature ==
    /\ script = "main" /\ mpc = "features" /\ feature_idx <= Len(features)
    /\ ~canceled
    /\ features' =
          [features EXCEPT
              ![feature_idx].mcolor = Evaluate(color_expression, features[feature_idx]),
              ![feature_idx].mlabel = Evaluate(label_expression, features[feature_idx])]
    /\ feature_idx' = feature_idx + 1
    /\ UNCHANGED <<script, canceled, mparams, expression_fields, color_expression,
                   label_expression, mpc, mresult, uvars, avars, jvars, svars,
                   xvars, ivars>>

\* the loop on features is exhausted
EndFeatures ==
    /\ script = "main" /\ mpc = "features" /\ feature_idx > Len(features)
    /\ mpc' = "virtual"
    /\ UNCHANGED <<script, canceled, mparams, features, expression_fields,
                   color_expression, label_expression, feature_idx, mresult,
                   uvars, avars, jvars, svars, xvars, ivars>>

\* createOrUpdateLayerExpressionField for the virtual fields that are given;
\* end the edit command; return ok
CreateVirtualFields ==
    /\ script = "main" /\ mpc = "virtual"
    /\ expression_fields' =
          {[name |-> virtual_color_field, expression |-> color_expression] :
              x \in {1} \cap (IF virtual_color_field # "" THEN {1} ELSE {})}
          \cup
          {[name |-> virtual_label_field, expression |-> label_expression] :
              x \in {1} \cap (IF virtual_label_field # "" THEN {1} ELSE {})}
    /\ mresult' = "ok"
    /\ mpc' = "done"
    /\ UNCHANGED <<script, canceled, mparams, features, color_expression,
                   label_expression, feature_idx, uvars, avars, jvars, svars,
                   xvars, ivars>>

NextMain ==
    \/ CheckParameterValues
    \/ ComputeExpressions
    \/ BeginEdit
    \/ BreakOnCancelMain
    \/ EditFeature
    \/ EndFeatures
    \/ CreateVirtualFields

(***************************************************************************)
(* ImportPg: a layer imported into a PostgreSQL table                      *)
(***************************************************************************)
EXCLUDED_FIELDS ==
    {<<"APIC_CDATE">>, <<"APIC_MDATE">>, <<"APIC_SPACE">>, <<"APIC_STATE">>,
     <<"APIC_STYLE">>, <<"OBJECTID">>, <<"Shape_Area">>, <<"Shape_Length">>,
     <<"FDO_OBJECTID">>, <<"GEOMETRY">>}

\* connection.tableExists(schema, table)
TableExists(tables, schema, table) == <<schema, table>> \in DOMAIN tables

\* the message of checkParameterValues for an existing table
AlreadyExists(schema, table) ==
    <<"The table '">> \o schema \o <<".">> \o table
        \o <<"' already exists. You must use the checkbox for overwriting">>

\* a test that lets every table through
RefusesNoTable(exists, overwriting) == FALSE

\* the test of checkParameterValues: the table is there and may not be replaced
RefusesExistingTable(exists, overwriting) == exists /\ ~overwriting

\* the fields of the layer kept for the import, in the layer's order
RECURSIVE IncludedFields(_)
IncludedFields(fields) ==
    IF fields = <<>> THEN <<>>
    ELSE IF fields[1] \in EXCLUDED_FIELDS THEN IncludedFields(Tail(fields))
    ELSE <<fields[1]>> \o IncludedFields(Tail(fields))

\* a table the database held before the run
PreviousTable == [fields |-> <<<<"GID">>>>, feature_count |-> 1]

TableKeys == {<<<<"public">>, <<"t">>>>, <<<<"public">>, <<"u">>>>,
              <<<<"other">>, <<"t">>>>}

ImportLayerPool ==
    [fields : {<<<<"GID">>, <<"NAME">>>>, <<<<"GID">>, <<"OBJECTID">>, <<"NAME">>>>,
               <<<<"GEOMETRY">>, <<"GID">>>>},
     feature_count : 0..MaxFeatures]

InitImport ==
    /\ script = "import"
    /\ canceled = FALSE
    /\ IdleUpdate
    /\ IdleAudit
    /\ IdleJoins
    /\ IdleSub
    /\ IdleExport
    /\ IdleMain
    /\ \E existing \in SUBSET TableKeys :
           pg_tables = [key \in existing |-> PreviousTable]
    /\ import_layer \in ImportLayerPool
    /\ pg_schema \in {<<"public">>, <<"other">>}
    /\ pg_table \in {<<"t">>, <<"u">>}
    /\ overwrite \in BOOLEAN
    /\ import_options = <<>>
    /\ ipc = "check" /\ iresult = <<>>

\* the parameters of the import and the other scripts' variables
iparams == <<script, canceled, import_layer, pg_schema, pg_table, overwrite,
             uvars, avars, jvars, svars, xvars, mvars>>

\* checkParameterValues: the framework starts processAlgorithm only when the
\* parameters are accepted
CheckImportParameters ==
    /\ script = "import" /\ ipc = "check"
    /\ IF RefusesExistingTable(TableExists(pg_tables, pg_schema, pg_table),
                               overwrite)
       THEN /\ ipc' = "rejected"
            /\ iresult' = AlreadyExists(pg_schema, pg_table)
       ELSE /\ ipc' = "fields"
            /\ iresult' = iresult
    /\ UNCHANGED <<iparams, pg_tables, import_options>>

\* options = "-select " + the fields that are not excluded
SelectFields ==
    /\ script = "import" /\ ipc = "fields"
    /\ import_options' =
           <<"-select", " ">> \o JoinComma(IncludedFields(import_layer.fields))
    /\ ipc' = "import"
    /\ UNCHANGED <<iparams, pg_tables, iresult>>

\* processing.run of the GDAL import: the table is written when it is new or
\* OVERWRITE is set, with all the features or fewer; a failed import leaves
\* the table as it was, or dropped when it was being overwritten
RunImport ==
    /\ script = "import" /\ ipc = "import"
    /\ LET key == <<pg_schema, pg_table>>
           exists == TableExists(pg_tables, pg_schema, pg_table)
       IN  \/ /\ ~exists \/ overwrite
              /\ \E n \in 0..import_layer.feature_count :
                     pg_tables' =
                         [k \in DOMAIN pg_tables \cup {key} |->
                             IF k = key
                             THEN [fields |-> IncludedFields(import_layer.fields),
                                   feature_count |-> n]
                             ELSE pg_tables[k]]
           \/ pg_tables' = pg_tables
           \/ /\ exists /\ overwrite
              /\ pg_tables' = [k \in DOMAIN pg_tables \ {key} |-> pg_tables[k]]
    /\ ipc' = "verify"
    /\ UNCHANGED <<iparams, import_options, iresult>>

\* SELECT COUNT(*) on the new table, compared with the layer's feature count
VerifyImport ==
    /\ script = "import" /\ ipc = "verify"
    /\ IF ~TableExists(pg_tables, pg_schema, pg_table)
       THEN /\ ipc' = "raised"
            /\ iresult' = <<"relation does not exist">>
       ELSE /\ ipc' = "done"
            /\ iresult' =
                   IF pg_tables[<<pg_schema, pg_table>>].feature_count
                          = import_layer.feature_count
                   THEN <<"Import is OK">>
                   ELSE <<"Import is OK but with a difference">>
    /\ UNCHANGED <<iparams, pg_tables, import_options>>

NextImport ==
    \/ CheckImportParameters
    \/ SelectFields
    \/ RunImport
    \/ VerifyImport

SpecImport == InitImport /\ [][NextImport]_vars

(* Any script, with the user's cancel button                               *)
(***************************************************************************)
Running ==
    \/ script = "update" /\ upc # "done"
    \/ script = "audit" /\ apc \notin {"done", "crashed"}
    \/ script = "joins" /\ jpc \notin {"done", "raised"}
    \/ script = "main" /\ mpc \notin {"done", "rejected", "raised"}

\* the user clicks cancel: feedback.isCanceled() answers True from now on
Cancel ==
    /\ Running /\ ~canceled
    /\ canceled' = TRUE
    /\ UNCHANGED <<script, uvars, avars, jvars, svars, xvars, mvars, ivars>>

SpecAudit == InitAudit /\ [][NextAudit \/ Cancel]_vars

Init == InitUpdate \/ InitAudit \/ InitJoins

Next == NextUpdate \/ NextAudit \/ NextJoins \/ Cancel

Spec == Init /\ [][Next]_vars

\* the main colour script, with the user's cancel button
SpecMain == InitMain /\ [][NextMain \/ Cancel]_vars

(***************************************************************************)
(* sub: the search pattern applied to one datasource text                  *)
(***************************************************************************)
SubCases ==
    [pattern : Texts(MaxPat) \ {<<>>}, repl : ReplacePool, text : Texts(MaxLen),
     icase : BOOLEAN, fw : BOOLEAN]

InitSub ==
    /\ script = "sub"
    /\ canceled = FALSE
    /\ IdleUpdate
    /\ IdleAudit
    /\ IdleJoins
    /\ IdleExport
    /\ IdleMain
    /\ IdleImport
    /\ subcase \in SubCases
    /\ subresult = [none |-> TRUE]

\* input_pattern.sub(replace_text, old_source, count=1), with the place of the match
ApplySub ==
    /\ script = "sub" /\ subresult = [none |-> TRUE]
    /\ LET re == CompilePattern(subcase.pattern, subcase.icase, subcase.fw)
       IN  subresult' = [pos |-> Search(re, subcase.text),
                         new |-> SubOnce(re, subcase.repl, subcase.text)]
    /\ UNCHANGED <<script, canceled, uvars, avars, jvars, xvars, mvars, subcase, ivars>>

NextSub == ApplySub

SpecSub == InitSub /\ [][NextSub]_vars

(***************************************************************************)
(* Properties of updateprojectdatasources                                  *)
(***************************************************************************)

\* C1: every write to a project path comes after a rename of that path to its
\* backup path: in the log of file operations, each write event of a path has
\* an earlier rename event of the same path.
C1_RenameBeforeWrite ==
    \A k \in 1..Len(events) :
        events[k].op = "write" =>
            \E j \in 1..(k - 1) : events[j] = Event("rename", events[k].path)

\* a finished run that rewrote a file
C1_Witness ==
    /\ upc = "done"
    /\ \E k \in 1..Len(events) : events[k].op = "write"
    /\ \E p \in Paths : fs[p].st = "ok" /\ fs[p] # before[p]

\* C2: with CREATE_BACKUP enabled, when the run ends every project file whose
\* content the run changed has a backup holding the content the file had when
\* the run started, however many datasource elements matched.
C2_BackupHoldsOriginal ==
    (upc = "done" /\ backups) =>
        \A p \in Paths :
            (p \in Range(modified) /\ p \notin Range(errors) /\ fs[p] # before[p])
                => bakfs[p] = before[p]

\* C3: the backup is removed, after the write, only when CREATE_BACKUP is
\* disabled: with backups disabled a finished run leaves no backup of a project
\* it processed without error and every removal directly follows the write of
\* the same path; with backups enabled nothing is removed and a backup file that
\* exists keeps existing.
C3_BackupRemoval ==
    /\ [](/\ (upc = "done" /\ ~backups) =>
                \A p \in Paths : bakfs[p].st # "absent" => p \in Range(errors)
          /\ \A k \in 1..Len(events) :
                events[k].op = "unlink" =>
                    /\ ~backups
                    /\ k > 1
                    /\ events[k - 1] = Event("write", events[k].path))
    /\ [][backups =>
            \A p \in Paths : bakfs[p].st # "absent" => bakfs'[p].st # "absent"]_vars

\* a finished run with backups disabled that rewrote a file and removed its backup
C3_Witness ==
    /\ upc = "done" /\ ~backups
    /\ \E p \in Paths :
          /\ p \in Range(modified) /\ p \notin Range(errors)
          /\ fs[p] # before[p]
          /\ bakfs[p].st = "absent"
          /\ \E k \in 1..Len(events) : events[k] = Event("unlink", p)

(***************************************************************************)
(* Properties of the substitution                                          *)
(***************************************************************************)
\* the occurrence of length n at position k lies inside a longer word: it is
\* made of word characters and a word character touches it on one side
InsideLongerWord(text, k, n) ==
    /\ \A j \in k..(k + n - 1) : IsWord(text[j])
    /\ \/ k > 1 /\ IsWord(text[k - 1])
       \/ k + n <= Len(text) /\ IsWord(text[k + n])

\* C4: with FULLWORD enabled the text changes only by replacing one literal
\* occurrence of the search text that has a word boundary on both sides; an
\* occurrence that is a proper part of a longer word is never the one replaced.
C4_FullWordOnly ==
    (script = "sub" /\ subresult # [none |-> TRUE] /\ subcase.fw) =>
        LET text == subcase.text
            n == Len(subcase.pattern)
            k == subresult.pos
        IN  IF k = 0
            THEN subresult.new = text
            ELSE /\ k + n - 1 <= Len(text)
                 /\ \A j \in 1..n :
                       \/ text[k + j - 1] = subcase.pattern[j]
                       \/ subcase.icase
                          /\ Lower(text[k + j - 1]) = Lower(subcase.pattern[j])
                 /\ ~InsideLongerWord(text, k, n)
                 /\ (k = 1 \/ IsWord(text[k - 1]) # IsWord(text[k]))
                 /\ (k + n > Len(text)
                        \/ IsWord(text[k + n - 1]) # IsWord(text[k + n]))
                 /\ (k = 1 => IsWord(text[1]))
                 /\ (k + n > Len(text) => IsWord(text[Len(text)]))
                 /\ subresult.new = SubSeq(text, 1, k - 1) \o subcase.repl
                                        \o SubSeq(text, k + n, Len(text))

\* a full-word substitution that replaced an occurrence although the same
\* search text also occurs earlier inside a longer word
C4_Witness ==
    /\ script = "sub" /\ subresult # [none |-> TRUE] /\ subcase.fw
    /\ subresult.pos > 1
    /\ subresult.new # subcase.text
    /\ \E k \in 1..(subresult.pos - 1) :
          /\ k + Len(subcase.pattern) - 1 <= Len(subcase.text)
          /\ SubSeq(subcase.text, k, k + Len(subcase.pattern) - 1) = subcase.pattern
          /\ InsideLongerWord(subcase.text, k, Len(subcase.pattern))

(***************************************************************************)
(* Properties about cancellation                                           *)
(***************************************************************************)
\* a step that begins the processing of one more item of a script's outer loop
UpdateStartsItem ==
    /\ script = "update" /\ upc = "iter" /\ current <= Len(collected)
    /\ (upc' = "node" \/ current' = current + 1)

AuditStartsItem == script = "audit" /\ apc = "loop" /\ apc' = "layers"

JoinsStartsItem ==
    /\ script = "joins" /\ jpc = "layer" /\ jidx <= Len(sel_layers)
    /\ jpc' # "layer"

\* C5 as stated: in every script, once cancellation has been requested no
\* further item of the outer loop is processed.
C5_NoItemAfterCancel ==
    [][canceled => ~(UpdateStartsItem \/ AuditStartsItem \/ JoinsStartsItem)]_vars

\* C5 as amended: the audit polls at the head of every iteration of its loop
\* on projects and starts no project once cancellation has been requested (it
\* leaves the loop and writes its files); the datasource-rewrite script and
\* the add-joins script never poll: they end only when every collected file,
\* or every selected layer (short of an exception), has been processed.
C5_OnlyAuditPolls ==
    /\ [][canceled => ~AuditStartsItem]_vars
    /\ [][(script = "audit" /\ canceled /\ apc = "loop" /\ apc' # apc)
             => apc' = "write_projects" /\ pidx' = pidx]_vars
    /\ [](script = "update" /\ upc = "done" => current = Len(collected) + 1)
    /\ [](script = "joins" /\ jpc = "done" => jidx = Len(sel_layers) + 1)

\* a canceled audit that ended with a project left unread, after it had
\* parsed one, and wrote its projects file
C5_Witness ==
    /\ script = "audit" /\ canceled /\ apc = "done"
    /\ pidx <= Len(qgis_project_files)
    /\ Len(projects) >= 1
    /\ csv_projects.written

(***************************************************************************)
(* Properties of the audit                                                 *)
(***************************************************************************)
NoFilters == layer_name_filter = <<>> /\ layer_datasource_filter = <<>>

NoDuplicates(list) == \A i, j \in 1..Len(list) : list[i] = list[j] => i = j

IsPrefix(a, b) == Len(a) <= Len(b) /\ SubSeq(b, 1, Len(a)) = a

\* C6: each CSV file is written with its declared columns in the declared
\* order and every row has exactly those keys: 14 for a project, and 5 more
\* exactly when GET_LIZMAP_CONFIG_PROPERTIES is set; (datasource, layer_names,
\* projects) for a layer; (table, projects) for a table.
C6_CsvColumns ==
    LET base == <<"path", "basename", "last_modified", "crs", "layer_count",
                  "invalid_layer_count", "memory_usage_mb", "print_layout_count",
                  "print_layout_pictures_paths", "print_layout_pictures_sizes",
                  "print_layout_pictures_total_size",
                  "print_layout_pictures_total_size_mb", "trust_option_active",
                  "last_save_version">>
        lizmap == <<"has_lizmap_config", "qgis_desktop_version",
                    "lizmap_plugin_version", "lizmap_web_client_target_version",
                    "project_valid">>
        declared == IF get_lizmap_config_properties THEN base \o lizmap ELSE base
    IN  script = "audit" =>
        /\ Len(declared) = IF get_lizmap_config_properties THEN 19 ELSE 14
        /\ \A k \in 1..Len(projects) : DOMAIN projects[k] = Range(declared)
        /\ csv_projects.written =>
              /\ csv_projects.header = declared
              /\ Len(csv_projects.rows) = Len(projects)
              /\ \A i \in 1..Len(projects) :
                    /\ Len(csv_projects.rows[i]) = Len(declared)
                    /\ \A j \in 1..Len(declared) :
                          csv_projects.rows[i][j] = projects[i][declared[j]]
        /\ csv_layers.written =>
              /\ csv_layers.header = <<"datasource", "layer_names", "projects">>
              /\ \A i \in 1..Len(csv_layers.rows) :
                    /\ Len(csv_layers.rows[i]) = 3
                    /\ \A j \in 1..3 : csv_layers.rows[i][j] # Blank
        /\ csv_tables.written =>
              /\ csv_tables.header = <<"table", "projects">>
              /\ \A i \in 1..Len(csv_tables.rows) :
                    /\ Len(csv_tables.rows[i]) = 2
                    /\ \A j \in 1..2 : csv_tables.rows[i][j] # Blank

\* a finished audit with the Lizmap properties that wrote rows in all three files
C6_Witness ==
    /\ script = "audit" /\ apc = "done" /\ get_lizmap_config_properties
    /\ csv_projects.written /\ Len(csv_projects.rows) = 2
    /\ csv_layers.written /\ Len(csv_layers.rows) >= 1
    /\ csv_tables.written /\ Len(csv_tables.rows) >= 1

\* the key under which the audit files a layer, <<>> when it files none
LayerKey(layer) == IF layer.xml = "text" THEN Strip(layer.ds) ELSE <<>>

\* one layer has just been parsed
LayerParsed == script = "audit" /\ apc = "layers" /\ lidx' = lidx + 1

C8_NoProjectNoOutput ==
    (/\ script = "audit" /\ apc # "list"
     /\ \A f \in directory : f[Len(f)] \notin {".qgs", ".qgz"}) =>
        /\ apc = "done"
        /\ "No project found" \in messages
        /\ ~csv_projects.written /\ ~csv_layers.written /\ ~csv_tables.written
        /\ projects = <<>>

\* the audit has returned from a directory that holds a file, but no project
C8_Witness ==
    /\ script = "audit" /\ apc = "done"
    /\ directory # {}
    /\ \A f \in directory : f[Len(f)] \notin {".qgs", ".qgz"}
    /\ output_csv_layers_path = "out.csv" /\ output_csv_tables_path = "out.csv"

\* the run went on after a layer whose XML does not parse
PastMalformedLayer ==
    script = "audit" /\ \E k \in 1..(lidx - 1) : k <= Len(layers) /\ layers[k].xml = "malformed"

\* C10 as stated: a layer whose XML does not parse aborts the run at once: the
\* run never goes past such a layer and writes no CSV file.
C10_MalformedXmlIsFatal == ~PastMalformedLayer

\* C10 as amended: a layer whose XML does not parse is not fatal: the error is
\* reported, the layer is filed under the datasource GHOST (when no filter
\* drops it and the layers file is asked for), the next layer is parsed, and a
\* run that ends normally has written the projects CSV.
C10_MalformedXmlIsReported ==
    /\ [][(/\ script = "audit" /\ apc = "layers" /\ lidx <= Len(layers)
           /\ layers[lidx].xml = "malformed"
           /\ <<apc, lidx>>' # <<apc, lidx>>) =>
             /\ apc' = "layers" /\ lidx' = lidx + 1
             /\ "Error while parsing datasource" \in messages'
             /\ (NoFilters /\ output_csv_layers_path = "out.csv") =>
                   \E k \in 1..Len(exported_datasources') :
                       exported_datasources'[k].key = <<"GHOST">>]_vars
    /\ []((PastMalformedLayer /\ apc = "done") =>
             /\ csv_projects.written
             /\ "Error while parsing datasource" \in messages)

\* a finished audit that met such a layer and wrote it in the layers CSV
C10_Witness ==
    /\ script = "audit" /\ apc = "done" /\ PastMalformedLayer
    /\ csv_projects.written /\ csv_layers.written
    /\ \E i \in 1..Len(csv_layers.rows) : csv_layers.rows[i][1] = Str(<<"GHOST">>)

(***************************************************************************)
(* Properties of the add-joins script                                      *)
(***************************************************************************)
\* C9: a join that fails does not stop the run: a run in which a join failed
\* ends only after the last layer has been processed, with the
\* QgsProcessingException that names the failed layers, and that exception is
\* raised only when a join failed.
C9_FailedJoinsDoNotStop ==
    (script = "joins" /\ jpc \in {"done", "raised"}) =>
        /\ failed # <<>> =>
              /\ jidx = Len(sel_layers) + 1
              /\ raised = "QgsProcessingException"
        /\ raised = "QgsProcessingException" => failed # <<>>

\* the keys of a dict in the order of their first insertion
KeysOf(dict) == [k \in 1..Len(dict) |-> dict[k].key]

\* the first column of the rows of a written CSV file
FirstColumn(file) == [i \in 1..Len(file.rows) |-> file.rows[i][1]]

\* C11 as stated: the rows of the layers CSV and of the tables CSV follow the
\* order in which their keys were first inserted in the dictionaries.
C11_RowsInInsertionOrder ==
    script = "audit" =>
        /\ csv_layers.written =>
              FirstColumn(csv_layers) =
                  [k \in 1..Len(exported_datasources) |->
                      Str(exported_datasources[k].key)]
        /\ csv_tables.written =>
              FirstColumn(csv_tables) =
                  [k \in 1..Len(unique_postgresql_tables) |->
                      Str(unique_postgresql_tables[k].key)]

\* C11 as amended: the rows of the layers CSV and of the tables CSV are the
\* keys of the dictionaries, each once, in ascending order of the key text
\* (the order of sorted()), whatever the order of insertion.
C11_RowsInSortedOrder ==
    script = "audit" =>
        /\ csv_layers.written =>
              /\ Range(FirstColumn(csv_layers)) =
                    {Str(key) : key \in Range(KeysOf(exported_datasources))}
              /\ \A i, j \in 1..Len(csv_layers.rows) :
                    i < j => LexLess(csv_layers.rows[i][1].str,
                                     csv_layers.rows[j][1].str)
        /\ csv_tables.written =>
              /\ Range(FirstColumn(csv_tables)) =
                    {Str(key) : key \in Range(KeysOf(unique_postgresql_tables))}
              /\ \A i, j \in 1..Len(csv_tables.rows) :
                    i < j => LexLess(csv_tables.rows[i][1].str,
                                     csv_tables.rows[j][1].str)

\* both files written with two rows each, from keys inserted in descending order
C11_Witness ==
    /\ script = "audit" /\ apc = "done"
    /\ csv_layers.written /\ csv_tables.written
    /\ Len(exported_datasources) = 2 /\ Len(unique_postgresql_tables) = 2
    /\ LexLess(exported_datasources[2].key, exported_datasources[1].key)
    /\ LexLess(unique_postgresql_tables[2].key, unique_postgresql_tables[1].key)

\* the layer passes both filters, each when it is set: its name contains the
\* name filter whatever the case, its datasource contains the datasource filter
PassesFilters(layer) ==
    /\ layer_name_filter = <<>>
          \/ Contains(LowerStr(layer_name_filter), LowerStr(Strip(layer.name)))
    /\ layer_datasource_filter = <<>>
          \/ Contains(layer_datasource_filter, DatasourceOf(layer).text)

\* the loop on projects has just finished with project number pidx - 1, whose
\* layers are still in layers
ProjectJustEnded == script = "audit" /\ apc = "loop" /\ pidx > 1

\* the project that has just ended is in the list of projects
JustListed ==
    /\ projects # <<>>
    /\ projects[Len(projects)].path = Str(qgis_project_files[pidx - 1])

\* C12: when a filter is set, a project is listed if and only if one of its
\* layers passes both filters, and that layer is then filed in the layers
\* dictionary (when the layers file is asked for) under this project.
C12_ListedIffLayerPassesFilters ==
    (ProjectJustEnded /\ ~NoFilters) =>
        /\ JustListed <=> \E k \in 1..Len(layers) : PassesFilters(layers[k])
        /\ (JustListed /\ output_csv_layers_path # "TEMPORARY_OUTPUT") =>
              \E k \in 1..Len(layers), d \in 1..Len(exported_datasources) :
                  /\ PassesFilters(layers[k])
                  /\ exported_datasources[d].key = DatasourceOf(layers[k]).text
                  /\ Strip(layers[k].name) \in Range(exported_datasources[d].names)
                  /\ RemoveAll(qgis_project_files[pidx - 1], projects_root_directory)
                        \in Range(exported_datasources[d].projects)

\* C13: invalid_layer_count of every listed project is a computed number
\* exactly when 'Do not resolve layers' is checked (checked meaning that the
\* layers are loaded to find the invalid ones).
C13_CheckedMeansInvalidLayersCounted ==
    script = "audit" =>
        \A k \in 1..Len(projects) :
            (projects[k].invalid_layer_count # Blank) <=> dont_resolve_layers

(***************************************************************************)
(* Properties of updateprojectdatasources: count and errors                *)
(***************************************************************************)
\* a datasource element of the file at path, as it was before the run,
\* matches the search pattern
HasMatch(path) ==
    \E k \in 1..Len(before[path].ds) :
        Search(CompilePattern(input_pattern, ignorecase, fullword),
               before[path].ds[k]) # 0

\* the project files whose content is not what it was before the run
ChangedFiles == {p \in Paths : fs[p] # before[p]}

\* C14: when a run ends (here: a run in which no error was reported),
\* OUTPUT_MODIFIED_COUNT is the number of distinct project files whose
\* content was changed, whatever FILEEXTS collects; a file in which no
\* datasource matches is neither renamed, rewritten nor counted.
C14_CountsDistinctModifiedFiles ==
    (script = "update" /\ upc = "done" /\ errors = <<>>) =>
        /\ output = Cardinality(ChangedFiles)
        /\ \A p \in Paths :
              ~HasMatch(p) =>
                  /\ fs[p] = before[p]
                  /\ p \notin Range(modified)
                  /\ \A e \in 1..Len(events) : events[e].path # p

\* number of entries of list equal to x
RECURSIVE Count(_, _)
Count(list, x) ==
    IF list = <<>> THEN 0
    ELSE (IF Head(list) = x THEN 1 ELSE 0) + Count(Tail(list), x)

C16_NotFoundLayerIsSkipped ==
    (script = "joins" /\ jpc = "raised" /\ jidx <= Len(sel_layers)) =>
        sel_layers[jidx].found

\* the layer number jidx - 1 has just been processed; joined_fields still
\* holds the fields its new joins brought in
LayerJustProcessed == script = "joins" /\ jpc = "layer" /\ jidx > 1

\* C17: after a layer has been processed, every field brought in by a join
\* added for one of its value relation fields is excluded from the WMS and
\* from the WFS publication of that layer.
C17_JoinedFieldsNotPublished ==
    LayerJustProcessed =>
        \A f \in Range(joined_fields) :
            /\ f \in Range(exclude_wms[jidx - 1])
            /\ f \in Range(exclude_wfs[jidx - 1])

(***************************************************************************)
(* Properties of the export to GeoPackage                                  *)
(***************************************************************************)
\* the tables named in TABLE_BLOCK_LIST, a list separated by commas
BlockedTables ==
    LET parts == Split(tables_block_list, ",")
    IN  {Strip(parts[k]) : k \in 1..Len(parts)} \ {<<>>}

\* C18: no table named in the list of tables to NOT export is among the
\* tables the command built by the run asks for, nor in the GeoPackage the
\* run creates.
C18_BlockedTablesNotExported ==
    script = "export" =>
        /\ xpc \in {"run", "ran", "done"} =>
              RequestedTables(ogr_arguments) \cap BlockedTables = {}
        /\ (xpc \in {"ran", "done"} /\ gpkg.exists) =>
              gpkg.tables \cap BlockedTables = {}

(***************************************************************************)
(* Properties of the main colour script                                    *)
(***************************************************************************)
\* exactly one of the two ways to name a target field is given
ExactlyOne(field, virtual_field) == (field # "") # (virtual_field # "")

\* C19: checkParameterValues refuses the parameters unless exactly one of the
\* colour pair and exactly one of the label pair is given: processAlgorithm
\* only runs with such parameters, and such parameters are not refused.
C19_ExactlyOneOfEachPair ==
    (script = "main" /\ mpc # "check") =>
        (mpc # "rejected" <=>
            /\ ExactlyOne(color_field, virtual_color_field)
            /\ ExactlyOne(label_field, virtual_label_field))

\* C20: a run that ends without cancellation, with an existing colour field
\* given and the label target given in one of its two ways, has set the
\* colour field of every feature to the colour computed for it.
C20_ColorFieldUpdated ==
    (/\ script = "main" /\ mpc = "done" /\ ~canceled
     /\ color_field # ""
     /\ ExactlyOne(label_field, virtual_label_field)
     /\ color_expression # <<>>) =>
        \A k \in 1..Len(features) :
            features[k].mcolor = Evaluate(color_expression, features[k])

(***************************************************************************)
(* Properties of the import into PostgreSQL                                *)
(***************************************************************************)
\* C21: when the destination table exists and OVERWRITE is unchecked,
\* checkParameterValues fails with the 'already exists' message and leaves
\* the database as it is, and after a refusal nothing more happens: the
\* import is not started and the table stays unchanged.
C21_ExistingTableRefused ==
    [][/\ (/\ script = "import" /\ ipc = "check"
           /\ TableExists(pg_tables, pg_schema, pg_table) /\ ~overwrite) =>
              /\ ipc' = "rejected"
              /\ iresult' = AlreadyExists(pg_schema, pg_table)
              /\ pg_tables' = pg_tables
       /\ ipc # "rejected"]_vars

\* a refused import into an existing table
C21_Witness ==
    /\ script = "import" /\ ipc = "rejected"
    /\ TableExists(pg_tables, pg_schema, pg_table) /\ ~overwrite
    /\ pg_tables[<<pg_schema, pg_table>>] = PreviousTable
    /\ iresult = AlreadyExists(pg_schema, pg_table)

(***************************************************************************)
(* Properties of the files an update leaves                                *)
(***************************************************************************)
\* C22: at every point of a run of updateprojectdatasources, every collected
\* project has a complete version at its path or at its backup path, with
\* backups enabled or disabled and when writing fails.
C22_NeverNeitherFile ==
    script = "update" =>
        \A p \in Range(collected) : fs[p].st = "ok" \/ bakfs[p].st = "ok"

====
